---- MODULE Spec2Model ----
(***************************************************************************)
(* Model of kfserving.storage.Storage (python/kfserving/kfserving/         *)
(* storage.py): the URI-to-backend dispatch of Storage.download and the    *)
(* backends _download_gcs, _download_s3, _download_blob, _download_local   *)
(* and _download_from_uri.                                                 *)
(*                                                                         *)
(* Python strings are sequences of one-character strings, so that          *)
(* startswith, replace, split, strip and the regular expressions are       *)
(* computed as the code computes them.  The file system is the set of      *)
(* existing regular files, directories and symbolic links, keyed by the    *)
(* normalised path.                                                        *)
(***************************************************************************)
EXTENDS Integers, Sequences, FiniteSets, TLC

\* ------------------------------------------------------------------ bounds
\* Largest number of entries a backend listing returns in the model.
MaxListing == 2

\* ------------------------------------------------------- string primitives
\* str.startswith
StartsWith(s, p) == Len(p) <= Len(s) /\ SubSeq(s, 1, Len(p)) = p

\* str.endswith
EndsWith(s, p) == Len(p) <= Len(s) /\ SubSeq(s, Len(s) - Len(p) + 1, Len(s)) = p

\* s[n:]
Drop(s, n) == IF n >= Len(s) THEN <<>> ELSE SubSeq(s, n + 1, Len(s))

\* 1-based index of the first occurrence of p in s, 0 when there is none
\* (str.find + 1).
Find(s, p) ==
    LET hits == {i \in 1..(Len(s) - Len(p) + 1) : SubSeq(s, i, i + Len(p) - 1) = p}
    IN  IF hits = {} THEN 0 ELSE CHOOSE i \in hits : \A j \in hits : i <= j

\* 1-based index of the last occurrence of the character c in s, 0 when none.
RFindChar(s, c) ==
    LET hits == {i \in 1..Len(s) : s[i] = c}
    IN  IF hits = {} THEN 0 ELSE CHOOSE i \in hits : \A j \in hits : i >= j

\* "c in s" for a single character c.
HasChar(s, c) == \E i \in 1..Len(s) : s[i] = c

\* s.replace(old, "", 1): the FIRST occurrence of old, wherever it is, is
\* removed; an empty old or no occurrence leaves s as it is.
ReplaceFirst(s, old) ==
    LET i == Find(s, old)
    IN  IF old = <<>> \/ i = 0 THEN s
        ELSE SubSeq(s, 1, i - 1) \o Drop(s, i + Len(old) - 1)

\* s.strip("/")
RECURSIVE LStripSlash(_)
LStripSlash(s) == IF s # <<>> /\ Head(s) = "/" THEN LStripSlash(Tail(s)) ELSE s

RECURSIVE RStripSlash(_)
RStripSlash(s) ==
    IF s # <<>> /\ s[Len(s)] = "/" THEN RStripSlash(SubSeq(s, 1, Len(s) - 1)) ELSE s

StripSlash(s) == RStripSlash(LStripSlash(s))

\* s.split("/", 1): one part when s holds no "/", else the parts around the
\* first one.
SplitFirst(s) ==
    LET i == Find(s, <<"/">>)
    IN  IF i = 0 THEN <<s>> ELSE <<SubSeq(s, 1, i - 1), Drop(s, i)>>

\* os.path.split(p): (head, tail) around the last "/", the head without its
\* trailing slashes unless it is all slashes.
PathSplit(p) ==
    LET i    == RFindChar(p, "/")
        head == SubSeq(p, 1, i)
        tail == Drop(p, i)
    IN  IF head # <<>> /\ RStripSlash(head) # <<>>
        THEN <<RStripSlash(head), tail>> ELSE <<head, tail>>

\* os.path.basename
Basename(p) == Drop(p, RFindChar(p, "/"))

\* os.path.join(a, b)
PathJoin(a, b) ==
    IF StartsWith(b, <<"/">>) THEN b
    ELSE IF a = <<>> \/ EndsWith(a, <<"/">>) THEN a \o b
    ELSE a \o <<"/">> \o b

\* The path the kernel resolves: runs of "/" collapse and a trailing "/" is
\* dropped (os.path.exists("gs://b/k") looks at gs:/b/k).
RECURSIVE Collapse(_)
Collapse(s) ==
    IF Len(s) < 2 THEN s
    ELSE IF s[1] = "/" /\ s[2] = "/" THEN Collapse(Tail(s))
    ELSE <<s[1]>> \o Collapse(Tail(s))

Norm(p) ==
    LET c == Collapse(p)
    IN  IF Len(c) > 1 /\ c[Len(c)] = "/" THEN SubSeq(c, 1, Len(c) - 1) ELSE c

\* os.path.dirname of a normalised path
Dirname(p) ==
    LET i == RFindChar(p, "/")
    IN  IF i = 0 THEN <<>> ELSE IF i = 1 THEN <<"/">> ELSE SubSeq(p, 1, i - 1)

\* The proper ancestors of a normalised path that os.makedirs creates
\* (every prefix ending before a "/", the root and the empty head excluded).
Ancestors(p) == {SubSeq(p, 1, i - 1) : i \in {j \in 2..Len(p) : p[j] = "/"}}

\* ------------------------------------------------------- program constants
\* Python's None (no one-character string, so no str equals it).
None == <<"None">>

_GCS_PREFIX == <<"g","s",":","/","/">>
_S3_PREFIX == <<"s","3",":","/","/">>
_LOCAL_PREFIX == <<"f","i","l","e",":","/","/">>

\* _BLOB_RE = "https://(.+?).blob.core.windows.net/(.+)".  The pattern is
\* kept in two literal parts; every "." of the second part is the regular
\* expression's any-character, as the unescaped dots of the source are.
BLOB_RE_HEAD == <<"h","t","t","p","s",":","/","/">>
BLOB_RE_TAIL == <<".","b","l","o","b",".","c","o","r","e",".","w","i","n","d","o","w","s",".","n","e","t","/">>

\* kfserving.kfmodel_repository.MODEL_MOUNT_DIRS, imported at line 32.
MODEL_MOUNT_DIRS == <<"/","m","n","t","/","m","o","d","e","l","s">>

\* ------------------------------------------------------ regular expressions
\* pat matches s at position i, "." matching any character.
PatAt(s, i, pat) ==
    /\ i >= 1
    /\ i + Len(pat) - 1 <= Len(s)
    /\ \A k \in 1..Len(pat) : pat[k] = "." \/ s[i + k - 1] = pat[k]

\* s holds the literal lit at position i.
LitAt(s, i, lit) ==
    i >= 1 /\ i + Len(lit) - 1 <= Len(s) /\ SubSeq(s, i, i + Len(lit) - 1) = lit

\* The matches of _BLOB_RE in s as <<i, j>>: "https://" at i, group 1 from
\* i+8 to j-1 (at least one character), the tail pattern at j, then at least
\* one character of group 2.
BlobMatches(s) ==
    {m \in (1..Len(s)) \X (1..Len(s)) :
        /\ LitAt(s, m[1], BLOB_RE_HEAD)
        /\ m[2] >= m[1] + Len(BLOB_RE_HEAD) + 1
        /\ PatAt(s, m[2], BLOB_RE_TAIL)
        /\ m[2] + Len(BLOB_RE_TAIL) <= Len(s)}

\* re.search(_BLOB_RE, uri) is not None
BlobSearch(s) == BlobMatches(s) # {}

\* The match re.search returns: the leftmost start, and for it the shortest
\* group 1 (".+?" is lazy); group 2 (".+", greedy) then runs to the end.
BlobMatch(s) ==
    LET ms == BlobMatches(s)
    IN  CHOOSE m \in ms :
            \A n \in ms : m[1] < n[1] \/ (m[1] = n[1] /\ m[2] <= n[2])

BlobGroup1(s) ==
    LET m == BlobMatch(s) IN SubSeq(s, m[1] + Len(BLOB_RE_HEAD), m[2] - 1)

BlobGroup2(s) ==
    LET m == BlobMatch(s) IN Drop(s, m[2] + Len(BLOB_RE_TAIL) - 1)

\* re.search(_URI_RE, uri) is not None, _URI_RE = "https?://(.+)/(.+)":
\* "http", an optional "s", "://", at least one character, a "/", at least
\* one character.
UriSearch(s) ==
    \E i \in 1..Len(s) : \E k \in {i + 7, i + 8} :
        /\ \/ (k = i + 7 /\ LitAt(s, i, <<"h","t","t","p",":","/","/">>))
           \/ (k = i + 8 /\ LitAt(s, i, <<"h","t","t","p","s",":","/","/">>))
        /\ \E j \in (k + 1)..(Len(s) - 1) : s[j] = "/"

\* ------------------------------------------------------- urllib.parse.urlparse
SchemeChars ==
    {"a","b","c","d","e","f","g","h","i","j","k","l","m","n","o","p","q","r",
     "s","t","u","v","w","x","y","z","0","1","2","3","4","5","6","7","8","9",
     "+","-","."}

Letters == SchemeChars \ {"0","1","2","3","4","5","6","7","8","9","+","-","."}

\* The length of the scheme of u (0 when it has none): the characters before
\* the first ":" when the first is a letter and all are scheme characters.
SchemeLen(u) ==
    LET i == Find(u, <<":">>)
    IN  IF i > 1 /\ u[1] \in Letters /\ \A k \in 1..(i - 1) : u[k] \in SchemeChars
        THEN i - 1 ELSE 0

UrlScheme(u) == SubSeq(u, 1, SchemeLen(u))

\* What follows the scheme and its ":".
AfterScheme(u) == IF SchemeLen(u) = 0 THEN u ELSE Drop(u, SchemeLen(u) + 1)

\* Index of the first character of s, from position from on, that is in cs;
\* Len(s) + 1 when there is none.
FirstOf(s, from, cs) ==
    LET hits == {i \in from..Len(s) : s[i] \in cs}
    IN  IF hits = {} THEN Len(s) + 1 ELSE CHOOSE i \in hits : \A j \in hits : i <= j

\* urlparse(u).netloc: after "//", up to the first "/", "?" or "#".
UrlNetloc(u) ==
    LET r == AfterScheme(u)
    IN  IF StartsWith(r, <<"/","/">>)
        THEN SubSeq(r, 3, FirstOf(r, 3, {"/", "?", "#"}) - 1) ELSE <<>>

\* urlparse(u).path: what follows the netloc, up to the first "?" or "#".
UrlPath(u) ==
    LET r    == AfterScheme(u)
        rest == IF StartsWith(r, <<"/","/">>)
                THEN Drop(r, FirstOf(r, 3, {"/", "?", "#"}) - 1) ELSE r
    IN  SubSeq(rest, 1, FirstOf(rest, 1, {"?", "#"}) - 1)

\* ------------------------------------------------------ mimetypes.guess_type
APPLICATION_ZIP == <<"a","p","p","l","i","c","a","t","i","o","n","/","z","i","p">>
APPLICATION_X_TAR == <<"a","p","p","l","i","c","a","t","i","o","n","/","x","-","t","a","r">>
APPLICATION_OCTET_STREAM == <<"a","p","p","l","i","c","a","t","i","o","n","/","o","c","t","e","t","-","s","t","r","e","a","m">>
APPLICATION_JSON == <<"a","p","p","l","i","c","a","t","i","o","n","/","j","s","o","n">>
GZIP == <<"g","z","i","p">>

\* posixpath.splitext: the extension starts at the last "." of the last path
\* component, unless only dots precede it there.
Splitext(p) ==
    LET sep == RFindChar(p, "/")
        dot == RFindChar(p, ".")
    IN  IF dot > sep /\ \E k \in (sep + 1)..(dot - 1) : p[k] # "."
        THEN <<SubSeq(p, 1, dot - 1), Drop(p, dot - 1)>>
        ELSE <<p, <<>>>>

\* mimetypes.suffix_map, encodings_map and types_map, for the extensions of
\* the model's URIs.
SuffixMap(ext) == IF ext = <<".","t","g","z">> THEN <<".","t","a","r",".","g","z">> ELSE None

EncodingsMap(ext) == IF ext = <<".","g","z">> THEN GZIP ELSE None

TypesMap(ext) ==
    IF ext = <<".","t","a","r">> THEN APPLICATION_X_TAR
    ELSE IF ext = <<".","z","i","p">> THEN APPLICATION_ZIP
    ELSE IF ext = <<".","j","s","o","n">> THEN APPLICATION_JSON
    ELSE None

\* mimetypes.guess_type(path) = <<type, encoding>>
GuessType(path) ==
    LET s0 == Splitext(path)
        s1 == IF SuffixMap(s0[2]) # None
              THEN Splitext(s0[1] \o SuffixMap(s0[2])) ELSE s0
        enc == EncodingsMap(s1[2])
        s2 == IF enc # None THEN Splitext(s1[1]) ELSE s1
    IN  <<TypesMap(s2[2]), enc>>

\* ------------------------------------------------------------------ inputs
HTTP_SCHEME == <<"h","t","t","p",":","/","/">>
HTTPS_SCHEME == <<"h","t","t","p","s",":","/","/">>
BLOB_HOST == <<"a",".","b","l","o","b",".","c","o","r","e",".","w","i","n","d","o","w","s",".","n","e","t">>

\* Object-store URIs, with and without a key prefix.
U_GS_BK == _GCS_PREFIX \o <<"b","/","k">>
U_GS_B == _GCS_PREFIX \o <<"b">>
U_S3_BK == _S3_PREFIX \o <<"b","/","k">>
U_S3_B == _S3_PREFIX \o <<"b">>
\* Blob-store URIs: container and prefix, container only, trailing slash, and
\* one behind the local prefix.
U_BLOB_CP == HTTPS_SCHEME \o BLOB_HOST \o <<"/","c","/","p">>
U_BLOB_C == HTTPS_SCHEME \o BLOB_HOST \o <<"/","c">>
U_BLOB_CPS == HTTPS_SCHEME \o BLOB_HOST \o <<"/","c","/","p","/">>
U_FILE_BLOB == _LOCAL_PREFIX \o U_BLOB_CP
\* Local paths, raw and behind the local prefix: a file, a directory, a
\* path that never exists, and a relative path that holds "file://" inside.
P_M == <<"/","m">>
P_D == <<"/","d">>
P_X == <<"/","x">>
P_INNER == <<"d","/","f","i","l","e",":","/","/","m">>
U_FILE_M == _LOCAL_PREFIX \o P_M
U_FILE_D == _LOCAL_PREFIX \o P_D
U_FILE_X == _LOCAL_PREFIX \o P_X
U_FILE_INNER == _LOCAL_PREFIX \o P_INNER
\* http(s) URIs
U_HTTP_PT == HTTP_SCHEME \o <<"h","/","m",".","p","t">>
U_HTTP_JSON == HTTP_SCHEME \o <<"h","/","m",".","j","s","o","n">>
U_HTTPS_ZIP == HTTPS_SCHEME \o <<"h","/","m",".","z","i","p">>
U_HTTPS_ZIPQ == HTTPS_SCHEME \o <<"h","/","m",".","z","i","p","?","q","=","1">>
U_HTTPS_TAR == HTTPS_SCHEME \o <<"h","/","m",".","t","a","r">>
U_HTTPS_TARGZ == HTTPS_SCHEME \o <<"h","/","m",".","t","a","r",".","g","z">>
U_HTTPS_TGZ == HTTPS_SCHEME \o <<"h","/","m",".","t","g","z">>
U_HTTPS_GZ == HTTPS_SCHEME \o <<"h","/","m",".","g","z">>
U_HTTPS_T == HTTPS_SCHEME \o <<"h","/","t","/">>
U_HTTPS_ROOT == HTTPS_SCHEME \o <<"h","/">>
U_HTTPS_H == HTTPS_SCHEME \o <<"h">>
U_FTP == <<"f","t","p",":","/","/","h","/","m">>
\* Paths under the managed mount
P_MNT_M == MODEL_MOUNT_DIRS \o <<"/","m">>
P_MNT_X == MODEL_MOUNT_DIRS \o <<"/","x">>

\* The out_dir arguments: none, a directory that exists, and a path that
\* does not exist under a parent that does.
OUT_EXISTING == <<"/","o">>
OUT_NEW == <<"/","n">>
OutDirs == {None, OUT_EXISTING, OUT_NEW}

\* The path of the out_dir that does not exist yet, as a local uri.
U_FILE_NEW == _LOCAL_PREFIX \o OUT_NEW

\* The uri arguments of Storage.download in the model.
Uris ==
    {U_GS_BK, U_GS_B, U_S3_BK, U_S3_B,
     U_BLOB_CP, U_BLOB_C, U_BLOB_CPS, U_FILE_BLOB,
     P_M, P_D, P_X, P_INNER, U_FILE_M, U_FILE_D, U_FILE_X, U_FILE_INNER,
     U_FILE_NEW,
     U_HTTP_PT, U_HTTP_JSON, U_HTTPS_ZIP, U_HTTPS_ZIPQ, U_HTTPS_TAR,
     U_HTTPS_TARGZ, U_HTTPS_TGZ, U_HTTPS_GZ, U_HTTPS_T, U_HTTPS_ROOT,
     U_HTTPS_H, U_FTP, P_MNT_M, P_MNT_X}

\* What tempfile.mkdtemp() returns: a fresh directory.
TMP_DIR == <<"/","t","m","p","/","t">>

\* ------------------------------------------------------------- file system
\* The local paths that may or may not exist when download is called; the
\* scenario is the set of those that do.  gs://b/k and d/file://m are stored
\* under the paths they resolve to.
FsOptional == {P_M, P_D, P_MNT_M, Norm(U_GS_BK), Norm(P_INNER)}

\* Nothing exists, one of the paths exists, or all do.
Scenarios == {{}} \cup {{p} : p \in FsOptional} \cup {FsOptional}

W == <<"w">>

\* Regular files of a scenario: each optional path is a file, but /d, a
\* directory holding the file /d/w.
ScenarioFiles(sc) == (sc \ {P_D}) \cup (IF P_D \in sc THEN {PathJoin(P_D, W)} ELSE {})

\* Directories of a scenario: the root, /o, /tmp, and every ancestor of what
\* exists.
ScenarioDirs(sc) ==
    {<<"/">>, OUT_EXISTING, <<"/","t","m","p">>}
        \cup (sc \cap {P_D})
        \cup UNION {Ancestors(f) : f \in ScenarioFiles(sc)}

VARIABLES
    pc,         \* where the call is: idle, dispatch, a backend, done
    scenario,   \* the optional paths that existed before the call
    uri,        \* download's uri argument
    out_arg,    \* download's out_dir argument (None when not passed)
    out_dir,    \* download's local out_dir
    is_local,   \* download's is_local
    backend,    \* the backend the uri was handed to
    result,     \* what download returned or raised
    files,      \* regular files that exist
    dirs,       \* directories that exist
    links,      \* symbolic links made, as <<src, dest>>
    fetched,    \* destination paths of the remote objects materialized
    log,        \* remote operations of the call, in order
    env,        \* the environment values the call read
    secure,     \* the secure flag the Minio client was built with
    token,      \* the token credential of the blob-store retry
    listing,    \* the listing the backend returned
    response    \* the response requests.get returned

vars == <<pc, scenario, uri, out_arg, out_dir, is_local, backend, result,
          files, dirs, links, fetched, log, env, secure, token, listing,
          response>>

\* os.path.exists / os.path.isdir on the current file system
LinkDests == {l[2] : l \in links}
Exists(p) == Norm(p) \in (files \cup dirs \cup LinkDests)
IsDir(p) ==
    \/ Norm(p) \in dirs
    \/ \E l \in links : l[2] = Norm(p) /\ Norm(l[1]) \in dirs

\* The environment variables the code reads; None is an unset variable.
EnvNames ==
    {"AWS_ENDPOINT_URL", "S3_USE_HTTPS", "AWS_REGION", "AZ_TENANT_ID",
     "AZ_CLIENT_ID", "AZ_CLIENT_SECRET", "AZ_SUBSCRIPTION_ID", "h-headers"}

\* os.getenv(name, default) on an environment e
Getenv(e, name, default) == IF e[name] = None THEN default ELSE e[name]

\* Results of a call
NoResult == [kind |-> "none", value |-> None, err |-> "none"]
Returned(v) == [kind |-> "ok", value |-> v, err |-> "none"]
Raised(e) == [kind |-> "error", value |-> None, err |-> e]

Init ==
    /\ pc = "idle"
    /\ scenario \in Scenarios
    /\ uri = None
    /\ out_arg = None
    /\ out_dir = None
    /\ is_local = FALSE
    /\ backend = "none"
    /\ result = NoResult
    /\ files = ScenarioFiles(scenario)
    /\ dirs = ScenarioDirs(scenario)
    /\ links = {}
    /\ fetched = {}
    /\ log = <<>>
    /\ env = [n \in EnvNames |-> None]
    /\ secure = None
    /\ token = None
    /\ listing = {}
    /\ response = None

\* ---------------------------------------------------------- Storage.download
\* Classify with the blob-store branch placed after the local and generic
\* branches.
ClassifyHttpFirst(u, local) ==
    IF StartsWith(u, _GCS_PREFIX) THEN "gcs"
    ELSE IF StartsWith(u, _S3_PREFIX) THEN "s3"
    ELSE IF local THEN "local"
    ELSE IF UriSearch(u) THEN "http"
    ELSE IF BlobSearch(u) THEN "blob"
    ELSE IF StartsWith(u, MODEL_MOUNT_DIRS) THEN "mount"
    ELSE "unrecognized"

\* Lines 59-76: the if/elif chain that chooses the backend.
Classify(u, local) ==
    IF StartsWith(u, _GCS_PREFIX) THEN "gcs"
    ELSE IF StartsWith(u, _S3_PREFIX) THEN "s3"
    ELSE IF BlobSearch(u) THEN "blob"
    ELSE IF local THEN "local"
    ELSE IF UriSearch(u) THEN "http"
    ELSE IF StartsWith(u, MODEL_MOUNT_DIRS) THEN "mount"
    ELSE "unrecognized"

\* IsLocal without the test of the local prefix.
IsLocalNoPrefix(u) == Exists(u)

\* Lines 47-49
IsLocal(u) == StartsWith(u, _LOCAL_PREFIX) \/ Exists(u)

\* Download without the os.mkdir of a missing out_dir.
DownloadNoMkdir(u, o) ==
    /\ pc = "idle"
    /\ uri' = u
    /\ out_arg' = o
    /\ is_local' = IsLocal(u)
    /\ IF o = None
       THEN IF IsLocal(u)
            THEN /\ out_dir' = None
                 /\ backend' = "local"
                 /\ pc' = "local"
                 /\ dirs' = dirs
            ELSE /\ out_dir' = TMP_DIR
                 /\ dirs' = dirs \cup {TMP_DIR}
                 /\ backend' = backend
                 /\ pc' = "dispatch"
       ELSE /\ out_dir' = o
            /\ dirs' = dirs
            /\ backend' = backend
            /\ pc' = "dispatch"
    /\ UNCHANGED <<scenario, result, files, links, fetched, log, env, secure,
                   token, listing, response>>

\* Lines 44-57: the call, is_local and the preparation of out_dir.  With no
\* out_dir and a local uri the call goes straight to _download_local.
Download(u, o) ==
    /\ pc = "idle"
    /\ uri' = u
    /\ out_arg' = o
    /\ is_local' = IsLocal(u)
    /\ IF o = None
       THEN IF IsLocal(u)
            THEN /\ out_dir' = None
                 /\ backend' = "local"
                 /\ pc' = "local"
                 /\ dirs' = dirs
            ELSE /\ out_dir' = TMP_DIR
                 /\ dirs' = dirs \cup {TMP_DIR}
                 /\ backend' = backend
                 /\ pc' = "dispatch"
       ELSE /\ out_dir' = o
            /\ dirs' = IF Exists(o) THEN dirs ELSE dirs \cup {Norm(o)}
            /\ backend' = backend
            /\ pc' = "dispatch"
    /\ UNCHANGED <<scenario, result, files, links, fetched, log, env, secure,
                   token, listing, response>>

\* Lines 59-76: hand the uri to the backend; the managed-mount and the
\* unrecognized cases end the call here.
Dispatch ==
    /\ pc = "dispatch"
    /\ LET b == Classify(uri, is_local)
       IN  /\ backend' = IF b = "unrecognized" THEN "none" ELSE b
           /\ pc' = IF b \in {"mount", "unrecognized"} THEN "done" ELSE b
           /\ result' = IF b = "mount" THEN Returned(out_dir)
                        ELSE IF b = "unrecognized" THEN Raised("UnrecognizedScheme")
                        ELSE result
    /\ UNCHANGED <<scenario, uri, out_arg, out_dir, is_local, files, dirs,
                   links, fetched, log, env, secure, token, listing, response>>

\* ---------------------------------------------------- Storage._download_local
\* The entries of directory d (glob's "*" over it).
Children(d) == {p \in (files \cup dirs \cup LinkDests) : p # Norm(d) /\ Dirname(p) = Norm(d)}

\* Lines 217-220: what glob.glob yields for local_path
GlobLocal(local_path) ==
    IF IsDir(local_path)
    THEN {PathJoin(local_path, Basename(c)) : c \in Children(local_path)}
    ELSE {local_path}

\* Line 208
LocalPath(u) == ReplaceFirst(u, _LOCAL_PREFIX)

\* Lines 207-225
DownloadLocal ==
    /\ pc = "local"
    /\ pc' = "done"
    /\ LET local_path == LocalPath(uri)
           srcs       == GlobLocal(local_path)
           dest(src)  == Norm(PathJoin(out_dir, PathSplit(src)[2]))
       IN  IF ~Exists(local_path)
           THEN /\ result' = Raised("LocalPathNotFound")
                /\ UNCHANGED <<dirs, links>>
           ELSE IF out_dir = None
           THEN /\ result' = Returned(local_path)
                /\ UNCHANGED <<dirs, links>>
           ELSE /\ dirs' = IF IsDir(out_dir) THEN dirs
                           ELSE dirs \cup {Norm(out_dir)} \cup Ancestors(Norm(out_dir))
                /\ IF \E src \in srcs : Exists(dest(src))
                   THEN \* os.symlink raises FileExistsError
                        /\ result' = Raised("FileExistsError")
                        /\ links' = links
                   ELSE /\ result' = Returned(out_dir)
                        /\ links' = links \cup {<<src, dest(src)>> : src \in srcs}
    /\ UNCHANGED <<scenario, uri, out_arg, out_dir, is_local, backend, files,
                   fetched, log, env, secure, token, listing, response>>

\* --------------------------------------------------------- object listings
\* Object keys a bucket may hold.  A key ending in "/" is a directory marker
\* (for the Minio client, an entry with is_dir set).
ObjectNames == {<<"k">>, <<"k","/">>, <<"k","/","w">>, <<"k","/","s","/","w">>, <<"w">>}

IsDirMarker(name) == EndsWith(name, <<"/">>)

\* The listings a backend may return for a prefix: at most MaxListing of the
\* keys that start with it.
Listings(names, prefix) ==
    {l \in SUBSET {n \in names : StartsWith(n, prefix)} : Cardinality(l) <= MaxListing}

\* Lines 84-86 and 109-111: the bucket path of an object-store uri
BucketPath(u, prefix) ==
    LET bucket_args == SplitFirst(ReplaceFirst(u, prefix))
    IN  IF Len(bucket_args) > 1 THEN bucket_args[2] ELSE <<>>

\* Writing the file at path p, with the directories above it.
FilesWith(fs, ps) == fs \cup {Norm(p) : p \in ps}
DirsWith(ds, ps) == ds \cup UNION {Ancestors(Norm(p)) : p \in ps}

\* ------------------------------------------------ Storage._create_minio_client
DEFAULT_ENDPOINT == <<"h","t","t","p",":","/","/","s","3",".","a","m","a","z","o","n","a","w","s",".","c","o","m">>
HTTPS == <<"h","t","t","p","s">>
TRUE_STR == <<"t","r","u","e">>
FALSE_STR == <<"f","a","l","s","e">>

\* Python's bool(str)
Bool(str) == str # <<>>

\* Lines 276-277: the secure flag
UseSsl(e) ==
    LET url == Getenv(e, "AWS_ENDPOINT_URL", DEFAULT_ENDPOINT)
    IN  IF UrlScheme(url) # <<>>
        THEN UrlScheme(url) = HTTPS
        ELSE Bool(Getenv(e, "S3_USE_HTTPS", TRUE_STR))

\* Line 278: the endpoint handed to Minio
MinioEndpoint(e) == UrlNetloc(Getenv(e, "AWS_ENDPOINT_URL", DEFAULT_ENDPOINT))

\* The values of the three overrides in the model
EndpointValues == {None, <<"h","t","t","p","s",":","/","/","e">>, <<"e">>, <<"/","/","e">>}
UseHttpsValues == {None, TRUE_STR, FALSE_STR, <<>>}
RegionValues == {None, <<"r">>}

\* ------------------------------------------------------- Storage._download_s3
\* Lines 91-95: the key of an object relative to the bucket path
S3SubdirKey(name, bucket_path) ==
    LET key == StripSlash(ReplaceFirst(name, bucket_path))
    IN  IF key = <<>> THEN name ELSE key

\* Lines 89-97: the paths fget_object writes
S3Written(ls, bucket_path, temp_dir) ==
    {PathJoin(temp_dir, S3SubdirKey(o, bucket_path)) : o \in {n \in ls : ~IsDirMarker(n)}}

\* Lines 88 and 98: count is incremented for every listed object
S3Count(ls) == Cardinality(ls)

\* Lines 82-101, then lines 78-79 of download.  The Minio constructor
\* refuses an empty endpoint, and list_objects may raise (access denied).
DownloadS3 ==
    /\ pc = "s3"
    /\ pc' = "done"
    /\ \E ep \in EndpointValues, uh \in UseHttpsValues, rg \in RegionValues :
         env' = [env EXCEPT !["AWS_ENDPOINT_URL"] = ep, !["S3_USE_HTTPS"] = uh,
                            !["AWS_REGION"] = rg]
    /\ secure' = UseSsl(env')
    /\ LET bucket_path == BucketPath(uri, _S3_PREFIX)
       IN  IF MinioEndpoint(env') = <<>>
           THEN /\ result' = Raised("InvalidEndpoint")
                /\ UNCHANGED <<files, dirs, fetched, log, listing>>
           ELSE /\ log' = log \o <<"list">>
                /\ \/ /\ result' = Raised("BackendError")
                      /\ UNCHANGED <<files, dirs, fetched, listing>>
                   \/ \E ls \in Listings(ObjectNames, bucket_path) :
                        LET written == S3Written(ls, bucket_path, out_dir)
                        IN  /\ listing' = ls
                            /\ fetched' = FilesWith(fetched, written)
                            /\ files' = FilesWith(files, written)
                            /\ dirs' = DirsWith(dirs, written)
                            /\ result' = IF S3Count(ls) = 0
                                         THEN Raised("ArtifactNotFound")
                                         ELSE Returned(out_dir)
    /\ UNCHANGED <<scenario, uri, out_arg, out_dir, is_local, backend, links,
                   token, response>>

\* ------------------------------------------------------ Storage._download_gcs
\* Lines 113-115: the prefix handed to list_blobs
GcsPrefix(bucket_path) ==
    IF EndsWith(bucket_path, <<"/">>) THEN bucket_path ELSE bucket_path \o <<"/">>

\* Line 120
GcsSubdirKey(name, bucket_path) == StripSlash(ReplaceFirst(name, bucket_path))

\* Lines 127-130: the paths download_to_filename writes (the keys of the
\* model hold no white space, so key.strip() is key)
GcsWritten(ls, bucket_path, temp_dir) ==
    {PathJoin(temp_dir, GcsSubdirKey(o, bucket_path)) :
        o \in {n \in ls : GcsSubdirKey(n, bucket_path) # <<>>}}

\* Lines 123-126: the directories os.makedirs creates
GcsMadeDirs(ls, bucket_path, temp_dir) ==
    UNION {LET key == GcsSubdirKey(o, bucket_path)
               d   == Norm(PathJoin(temp_dir, SubSeq(key, 1, RFindChar(key, "/") - 1)))
           IN  IF HasChar(key, "/") THEN {d} \cup Ancestors(d) ELSE {}
           : o \in ls}

\* Lines 117 and 131: count is incremented for every listed blob
GcsCount(ls) == Cardinality(ls)

\* Lines 104-134, then lines 78-79 of download.  storage.Client() either
\* finds default credentials or the anonymous client is used; list_blobs may
\* raise (forbidden).
DownloadGcs ==
    /\ pc = "gcs"
    /\ pc' = "done"
    /\ \E client \in {"client", "anonymous_client"} : log' = log \o <<client, "list">>
    /\ LET bucket_path == BucketPath(uri, _GCS_PREFIX)
       IN  \/ /\ result' = Raised("BackendError")
              /\ UNCHANGED <<files, dirs, fetched, listing>>
           \/ \E ls \in Listings(ObjectNames, GcsPrefix(bucket_path)) :
                LET written == GcsWritten(ls, bucket_path, out_dir)
                IN  /\ listing' = ls
                    /\ fetched' = FilesWith(fetched, written)
                    /\ files' = FilesWith(files, written)
                    /\ dirs' = dirs \cup GcsMadeDirs(ls, bucket_path, out_dir)
                    /\ result' = IF GcsCount(ls) = 0
                                 THEN Raised("ArtifactNotFound")
                                 ELSE Returned(out_dir)
    /\ UNCHANGED <<scenario, uri, out_arg, out_dir, is_local, backend, links,
                   env, secure, token, response>>

\* ----------------------------------------------------- Storage._download_blob
\* Blob names a container may hold.
BlobNames == {<<"p">>, <<"p","/","w">>, <<"p","/","s","/","w">>}

\* Lines 138-141: <<container_name, prefix>>; a storage_url without "/"
\* yields one part only and the unpacking raises ValueError.
BlobArgs(u) == SplitFirst(BlobGroup2(u))

\* Lines 158-166: where a blob is written
BlobDirPath(name, prefix, o) ==
    LET head0 == Drop(PathSplit(name)[1], Len(prefix))
        head  == IF StartsWith(head0, <<"/">>) THEN Tail(head0) ELSE head0
    IN  PathJoin(o, head)

BlobDestPath(name, prefix, o) ==
    IF HasChar(name, "/")
    THEN PathJoin(BlobDirPath(name, prefix, o), PathSplit(name)[2])
    ELSE PathJoin(o, name)

\* Lines 167-168: the directories os.makedirs creates
BlobMadeDirs(ls, prefix, o) ==
    UNION {LET d == Norm(BlobDirPath(n, prefix, o))
           IN  IF HasChar(n, "/") THEN {d} \cup Ancestors(d) ELSE {}
           : n \in ls}

\* The service-principal variables of _get_azure_storage_token
AzNames == {"AZ_TENANT_ID", "AZ_CLIENT_ID", "AZ_CLIENT_SECRET", "AZ_SUBSCRIPTION_ID"}

\* Lines 179-185: some variable is unset or empty
AzIncomplete(e) == \E n \in AzNames : Getenv(e, n, <<>>) = <<>>

\* The settings of the four variables in the model: all set, all but one
\* set, none set.
AzValues ==
    {[n \in AzNames |-> IF n \in unset THEN None ELSE <<"v">>] :
        unset \in {{}, AzNames} \cup {{n} : n \in AzNames}}

TOKEN == <<"TokenCredential">>

\* Lines 138-149: parse the uri, then the listing attempt of the try block
\* with the ambient credentials, which returns a listing or raises.  The log
\* records the attempt and how it ended.
BlobListAmbient ==
    /\ pc = "blob"
    /\ IF Len(BlobArgs(uri)) # 2
       THEN /\ result' = Raised("ValueError")
            /\ pc' = "done"
            /\ UNCHANGED <<log, listing>>
       ELSE /\ result' = result
            /\ \/ /\ pc' = "blob_except"
                  /\ log' = log \o <<"list_ambient", "raised">>
                  /\ listing' = listing
               \/ /\ pc' = "blob_fetch"
                  /\ log' = log \o <<"list_ambient", "returned">>
                  /\ listing' \in Listings(BlobNames, BlobArgs(uri)[2])
    /\ UNCHANGED <<scenario, uri, out_arg, out_dir, is_local, backend, files,
                   dirs, links, fetched, env, secure, token, response>>

\* BlobResolveToken with a failed exchange swallowed: the retry goes on
\* without a token.
BlobResolveTokenSwallow ==
    /\ pc = "blob_except"
    /\ \E az \in AzValues :
         env' = [n \in EnvNames |-> IF n \in AzNames THEN az[n] ELSE env[n]]
    /\ IF AzIncomplete(env')
       THEN /\ log' = log \o <<"resolve">>
            /\ token' = None
       ELSE /\ log' = log \o <<"resolve", "exchange">>
            /\ token' \in {TOKEN, None}
    /\ pc' = "blob_retry"
    /\ result' = result
    /\ UNCHANGED <<scenario, uri, out_arg, out_dir, is_local, backend, files,
                   dirs, links, fetched, secure, listing, response>>

\* Lines 150-153 and 177-204: the except branch asks for a token; with all
\* four variables set the client-credentials exchange runs, and returns a
\* token or raises.
BlobResolveToken ==
    /\ pc = "blob_except"
    /\ \E az \in AzValues :
         env' = [n \in EnvNames |-> IF n \in AzNames THEN az[n] ELSE env[n]]
    /\ IF AzIncomplete(env')
       THEN /\ log' = log \o <<"resolve">>
            /\ token' = None
            /\ pc' = "blob_retry"
            /\ result' = result
       ELSE /\ log' = log \o <<"resolve", "exchange">>
            /\ \/ /\ token' = TOKEN
                  /\ pc' = "blob_retry"
                  /\ result' = result
               \/ /\ token' = token
                  /\ pc' = "done"
                  /\ result' = Raised("CredentialExchangeFailure")
    /\ UNCHANGED <<scenario, uri, out_arg, out_dir, is_local, backend, files,
                   dirs, links, fetched, secure, listing, response>>

\* Lines 154-155: the second listing, with the token or anonymously; an
\* exception here is not caught.
BlobListRetry ==
    /\ pc = "blob_retry"
    /\ log' = log \o <<IF token = None THEN "list_anonymous" ELSE "list_token">>
    /\ \/ /\ pc' = "done"
          /\ result' = Raised("BackendError")
          /\ listing' = listing
       \/ /\ pc' = "blob_fetch"
          /\ result' = result
          /\ listing' \in Listings(BlobNames, BlobArgs(uri)[2])
    /\ UNCHANGED <<scenario, uri, out_arg, out_dir, is_local, backend, files,
                   dirs, links, fetched, env, secure, token, response>>

\* Lines 156-175, then lines 78-79 of download
BlobMaterialize ==
    /\ pc = "blob_fetch"
    /\ pc' = "done"
    /\ LET prefix  == BlobArgs(uri)[2]
           written == {BlobDestPath(n, prefix, out_dir) : n \in listing}
       IN  /\ fetched' = FilesWith(fetched, written)
           /\ files' = FilesWith(files, written)
           /\ dirs' = dirs \cup BlobMadeDirs(listing, prefix, out_dir)
           /\ result' = IF Cardinality(listing) = 0
                        THEN Raised("ArtifactNotFound")
                        ELSE Returned(out_dir)
    /\ UNCHANGED <<scenario, uri, out_arg, out_dir, is_local, backend, links,
                   log, env, secure, token, listing, response>>

\* ------------------------------------------------ Storage._download_from_uri
STATUS_OK == 200
STATUS_NOT_FOUND == 404
TEXT_HTML == <<"t","e","x","t","/","h","t","m","l">>

\* The value of the Content-Type header (None: the header is missing), with
\* response.headers.get('Content-Type', '')
ContentTypes ==
    {None, APPLICATION_ZIP, APPLICATION_X_TAR, APPLICATION_OCTET_STREAM,
     APPLICATION_ZIP \o <<";">>, TEXT_HTML}
ContentType(r) == IF r.ctype = None THEN <<>> ELSE r.ctype

\* Response bodies: what is inside (a tar, a zip, or other bytes), whether it
\* is gzip-compressed, and the names of an archive's members: a plain name,
\* the names the archive itself is written under, and an absolute name.
M_ZIP == <<"m",".","z","i","p">>
M_TAR == <<"m",".","t","a","r">>
M_ABS == <<"/","e">>
MemberSets == {{W}, {W, M_ZIP, M_TAR}, {W, M_ABS}}
Bodies ==
    {[gz |-> g, fmt |-> "raw", members |-> {}] : g \in BOOLEAN}
        \cup {[gz |-> g, fmt |-> "tar", members |-> m] : g \in BOOLEAN, m \in MemberSets}
        \cup {[gz |-> FALSE, fmt |-> "zip", members |-> m] : m \in MemberSets}

Responses ==
    {[status |-> STATUS_NOT_FOUND, ctype |-> None,
      body |-> [gz |-> FALSE, fmt |-> "raw", members |-> {}]]}
        \cup {[status |-> STATUS_OK, ctype |-> c, body |-> b] :
                c \in ContentTypes, b \in Bodies}

\* The values of the <hostname>-headers variable: unset (the default, "{}",
\* is used) and text json.loads rejects.  Every http(s) uri of the model has
\* the host h.
JSON_EMPTY == <<"{", "}">>
JSON_BAD == <<"{">>
HeaderValues == {None, JSON_BAD}

\* Lines 247-252: the Content-Type the guessed type asks for
RequiredType(mimetype) ==
    IF mimetype = APPLICATION_ZIP THEN APPLICATION_ZIP
    ELSE IF mimetype = APPLICATION_X_TAR THEN APPLICATION_X_TAR
    ELSE APPLICATION_OCTET_STREAM

\* ResponseError with every Content-Type accepted for a zip.
ResponseErrorNoZipCheck(r, mimetype) ==
    IF r.status # STATUS_OK THEN "FetchFailed"
    ELSE IF mimetype # APPLICATION_ZIP
            /\ ~StartsWith(ContentType(r), RequiredType(mimetype))
    THEN "ContentTypeMismatch"
    ELSE "none"

\* Lines 245-252: the error the response is refused with, "none" if accepted
ResponseError(r, mimetype) ==
    IF r.status # STATUS_OK THEN "FetchFailed"
    ELSE IF ~StartsWith(ContentType(r), RequiredType(mimetype)) THEN "ContentTypeMismatch"
    ELSE "none"

\* Lines 232 and 254-258: the file the stream is written to
HttpLocalPath(o, filename, encoding) ==
    IF encoding = GZIP THEN PathJoin(o, filename \o <<".","t","a","r">>) ELSE PathJoin(o, filename)

\* Lines 262-266: tarfile.open(.., 'r') reads a tar, compressed or not;
\* zipfile.ZipFile reads a zip.
ArchiveOpens(mimetype, content) ==
    IF mimetype = APPLICATION_X_TAR THEN content.fmt = "tar"
    ELSE content.fmt = "zip" /\ ~content.gz

\* Line 267: where archive.extractall(out_dir) writes a member.  zipfile
\* drops the leading "/" of a name; tarfile joins the name to out_dir as it
\* is, or drops the leading "/" first, by the extraction filter of the
\* Python it runs on (strip).
ExtractTarget(mimetype, o, name, strip) ==
    IF mimetype = APPLICATION_ZIP \/ strip
    THEN PathJoin(o, LStripSlash(name))
    ELSE PathJoin(o, name)

ExtractTargets(mimetype, o, names, strip) ==
    {ExtractTarget(mimetype, o, n, strip) : n \in names}

\* Lines 267-269: the members are written, then the archive file is removed.
FilesAfterExtract(fs, targets, local_path) ==
    FilesWith(fs, targets) \ {Norm(local_path)}

\* A member is written over the archive file that is being read.
OverwritesArchive(targets, local_path) ==
    Norm(local_path) \in {Norm(t) : t \in targets}

\* Lines 228-271.  When a member is written over the open archive file the
\* extraction either still completes or raises, by what is left to read.
DownloadFromUri ==
    /\ pc = "http"
    /\ pc' = "done"
    /\ LET path       == UrlPath(uri)
           filename   == Basename(path)
           mimetype   == GuessType(path)[1]
           encoding   == GuessType(path)[2]
           local_path == HttpLocalPath(out_dir, filename, encoding)
       IN  IF filename = <<>>
           THEN /\ result' = Raised("MissingFilename")
                /\ UNCHANGED <<files, fetched, log, env, response>>
           ELSE \E hv \in HeaderValues :
                /\ env' = [env EXCEPT !["h-headers"] = hv]
                /\ IF Getenv(env', "h-headers", JSON_EMPTY) # JSON_EMPTY
                   THEN /\ result' = Raised("JSONDecodeError")
                        /\ UNCHANGED <<files, fetched, log, response>>
                   ELSE \E r \in Responses :
                        /\ response' = r
                        /\ log' = log \o <<"http_get">>
                        /\ IF ResponseError(r, mimetype) # "none"
                           THEN /\ result' = Raised(ResponseError(r, mimetype))
                                /\ UNCHANGED <<files, fetched>>
                           ELSE IF encoding = GZIP /\ ~r.body.gz
                           THEN \* the file is opened, then GzipFile refuses the stream
                                /\ result' = Raised("BadGzipFile")
                                /\ files' = FilesWith(files, {local_path})
                                /\ fetched' = fetched
                           ELSE LET content == IF encoding = GZIP
                                               THEN [r.body EXCEPT !.gz = FALSE]
                                               ELSE r.body
                                IN  /\ fetched' = FilesWith(fetched, {local_path})
                                    /\ IF mimetype \notin {APPLICATION_X_TAR, APPLICATION_ZIP}
                                       THEN /\ result' = Returned(out_dir)
                                            /\ files' = FilesWith(files, {local_path})
                                       ELSE IF ~ArchiveOpens(mimetype, content)
                                       THEN /\ result' = Raised("BadArchive")
                                            /\ files' = FilesWith(files, {local_path})
                                       ELSE \E strip \in BOOLEAN :
                                            LET targets == ExtractTargets(mimetype, out_dir,
                                                                          content.members, strip)
                                            IN  \/ /\ result' = Returned(out_dir)
                                                   /\ files' = FilesAfterExtract(files, targets, local_path)
                                                \/ /\ OverwritesArchive(targets, local_path)
                                                   /\ result' = Raised("ExtractError")
                                                   /\ \E some \in SUBSET targets :
                                                        files' = FilesWith(files, some \cup {local_path})
    /\ UNCHANGED <<scenario, uri, out_arg, out_dir, is_local, backend, dirs,
                   links, secure, token, listing>>

\* ------------------------------------------------------------ specification
Next ==
    \/ \E u \in Uris, o \in OutDirs : Download(u, o)
    \/ Dispatch
    \/ DownloadLocal
    \/ DownloadS3
    \/ DownloadGcs
    \/ BlobListAmbient
    \/ BlobResolveToken
    \/ BlobListRetry
    \/ BlobMaterialize
    \/ DownloadFromUri

Spec == Init /\ [][Next]_vars

\* ------------------------------------------------------------------ claims
Done == pc = "done"

\* The file system before the call
InitiallyExists(p) == Norm(p) \in (ScenarioFiles(scenario) \cup ScenarioDirs(scenario))

FsUnchanged ==
    /\ files = ScenarioFiles(scenario)
    /\ dirs = ScenarioDirs(scenario)
    /\ links = {}

\* The rules of the dispatch as the specification lists them, in its order.
RuleOrder == <<"gcs", "s3", "blob", "local", "http", "mount">>

RuleMatches(rule, u) ==
    CASE rule = "gcs" -> StartsWith(u, _GCS_PREFIX)
      [] rule = "s3" -> StartsWith(u, _S3_PREFIX)
      [] rule = "blob" -> BlobSearch(u)
      [] rule = "local" -> StartsWith(u, _LOCAL_PREFIX) \/ InitiallyExists(u)
      [] rule = "http" -> UriSearch(u)
      [] rule = "mount" -> StartsWith(u, MODEL_MOUNT_DIRS)

FirstRule(u) ==
    LET hits == {i \in 1..Len(RuleOrder) : RuleMatches(RuleOrder[i], u)}
    IN  IF hits = {} THEN "none"
        ELSE RuleOrder[CHOOSE i \in hits : \A j \in hits : i <= j]

\* C1 (as stated): for every uri and every out_dir the backend is the one of
\* the first matching rule in the order gs://, s3://, blob-store pattern,
\* local, generic pattern, managed mount, and with no match the call fails
\* with UnrecognizedScheme.
C1_FixedOrderAlways ==
    Done =>
        /\ backend = FirstRule(uri)
        /\ (FirstRule(uri) = "none" => result = Raised("UnrecognizedScheme"))

\* C1 (amended): with an out_dir, or a uri that is not local, the backend is
\* the one of the first matching rule in that order; with no out_dir and a
\* local uri it is the local backend whatever else matches.  The call fails
\* with UnrecognizedScheme exactly when no rule matches, and a uri matching
\* the blob-store pattern is never handed to the generic-HTTP backend.
C1_OrderUnlessLocalWithoutOutDir ==
    Done =>
        /\ backend = IF out_arg = None /\ RuleMatches("local", uri)
                     THEN "local" ELSE FirstRule(uri)
        /\ (backend = "none" <=> result = Raised("UnrecognizedScheme"))
        /\ (BlobSearch(uri) => backend # "http")

\* C1 witness: a uri with the local prefix that also matches the blob-store
\* pattern, called with an out_dir, was handed to the blob-store backend.
C1_Witness ==
    Done /\ uri = U_FILE_BLOB /\ out_arg = OUT_EXISTING /\ backend = "blob"

\* The path a local uri names: what follows the local prefix, or the uri.
NamedPath(u) == IF StartsWith(u, _LOCAL_PREFIX) THEN Drop(u, Len(_LOCAL_PREFIX)) ELSE u

\* The raw local paths among the inputs
RawPaths == {P_M, P_D, P_X, P_INNER, P_MNT_M, P_MNT_X, OUT_NEW}

IsLocalPathUri(u) == \E p \in RawPaths : u = p \/ u = _LOCAL_PREFIX \o p

\* C2 (as stated): download of a local path that does not exist, raw or
\* behind file://, with or without out_dir, fails with LocalPathNotFound.
C2_MissingPathAlwaysNotFound ==
    (Done /\ IsLocalPathUri(uri) /\ ~InitiallyExists(NamedPath(uri)))
        => result = Raised("LocalPathNotFound")

\* C2 (amended): download("file://" + p) for a p that does not exist fails
\* with LocalPathNotFound, with or without out_dir, unless an out_dir is
\* passed and either the uri matches the blob-store pattern or p is that
\* out_dir; a raw path that does not exist is never handed to the local
\* backend.
C2_MissingPrefixedPathNotFound ==
    Done =>
        /\ (/\ StartsWith(uri, _LOCAL_PREFIX)
            /\ ~InitiallyExists(NamedPath(uri))
            /\ (out_arg = None \/ (~BlobSearch(uri) /\ Norm(NamedPath(uri)) # Norm(out_arg))))
               => result = Raised("LocalPathNotFound")
        /\ (~StartsWith(uri, _LOCAL_PREFIX) /\ ~InitiallyExists(uri))
               => backend # "local"

\* C2 witness: file:///x with an out_dir that had to be created failed with
\* LocalPathNotFound.
C2_Witness ==
    /\ Done /\ uri = U_FILE_X /\ out_arg = OUT_NEW
    /\ result = Raised("LocalPathNotFound")

\* C3 (as stated): an object-store or blob-store download never returns with
\* no object materialized.
C3_NoSuccessWithoutObjects ==
    (Done /\ backend \in {"s3", "gcs", "blob"} /\ result.kind = "ok")
        => fetched # {}

\* C4 (as stated): with no override set the Minio client is secure, and
\* S3_USE_HTTPS alone decides: "true" or unset gives a secure client, "false"
\* an insecure one, whatever AWS_ENDPOINT_URL and AWS_REGION are.
C4_SecureByDefaultAndByOverride ==
    (Done /\ backend = "s3") =>
        /\ env["S3_USE_HTTPS"] \in {None, TRUE_STR} => secure = TRUE
        /\ env["S3_USE_HTTPS"] = FALSE_STR => secure = FALSE

\* C5 (as stated): for a uri under MODEL_MOUNT_DIRS nothing is fetched,
\* copied or linked, and the out_dir that was passed is returned.
C5_MountIsNoOp ==
    (Done /\ StartsWith(uri, MODEL_MOUNT_DIRS)) =>
        /\ links = {}
        /\ fetched = {}
        /\ log = <<>>
        /\ files = ScenarioFiles(scenario)
        /\ out_arg # None => result = Returned(out_arg)

\* C6 (as stated): an http(s) uri whose path ends in "/", so that its last
\* segment is empty, fails with MissingFilename.  (Stated for the uris that
\* do not match the blob-store pattern, which the dispatch hands to the
\* blob-store backend.)
C6_EmptyFilenameIsMissingFilename ==
    (/\ Done
     /\ UrlScheme(uri) \in {HTTPS, <<"h","t","t","p">>}
     /\ EndsWith(UrlPath(uri), <<"/">>)
     /\ ~BlobSearch(uri)
     /\ ~InitiallyExists(uri))
        => result = Raised("MissingFilename")

\* The Content-Type the specification asks for, by the guessed type of the
\* uri's path.
SpecRequiredType(u) ==
    LET mimetype == GuessType(UrlPath(u))[1]
    IN  CASE mimetype = APPLICATION_ZIP -> APPLICATION_ZIP
          [] mimetype = APPLICATION_X_TAR -> APPLICATION_X_TAR
          [] OTHER -> APPLICATION_OCTET_STREAM

\* requests.get has returned a response
HasResponse == \E i \in 1..Len(log) : log[i] = "http_get"

\* C7: once the generic-HTTP backend has a response, the download succeeds
\* only if the status is 200 and the Content-Type starts with the type the
\* guessed media type asks for; another status fails with FetchFailed, and a
\* 200 with another Content-Type fails with ContentTypeMismatch.
C7_HttpValidation ==
    (Done /\ backend = "http" /\ HasResponse) =>
        LET good == StartsWith(ContentType(response), SpecRequiredType(uri))
        IN  /\ result.kind = "ok" => (response.status = STATUS_OK /\ good)
            /\ response.status # STATUS_OK => result = Raised("FetchFailed")
            /\ (response.status = STATUS_OK /\ ~good)
                   => result = Raised("ContentTypeMismatch")

\* C7 witness: a zip uri answered 200 with a Content-Type that starts with
\* application/zip without being equal to it, and the download succeeded.
C7_Witness ==
    /\ Done /\ backend = "http" /\ uri = U_HTTPS_ZIP /\ result.kind = "ok"
    /\ HasResponse
    /\ response.ctype = APPLICATION_ZIP \o <<";">>

\* The listing attempts of the log
ListEvents == {"list_ambient", "list_token", "list_anonymous"}
Count(evs) == Cardinality({i \in 1..Len(log) : log[i] \in evs})
Position(ev) == {i \in 1..Len(log) : log[i] = ev}

\* C8: in the blob-store backend the resolver runs only right after the
\* ambient listing has raised; a token is followed by exactly one listing
\* with it, no token by exactly one anonymous listing, a failed exchange by
\* no listing at all; and no call lists more than twice.
C8_CredentialFallback ==
    backend = "blob" =>
        /\ Count(ListEvents) <= 2
        /\ Count({"list_ambient"}) <= 1 /\ Count({"list_token", "list_anonymous"}) <= 1
        /\ \A i \in Position("resolve") :
               i = 3 /\ SubSeq(log, 1, 2) = <<"list_ambient", "raised">>
        /\ \A i \in Position("list_token") :
               token = TOKEN /\ ~AzIncomplete(env) /\ SubSeq(log, i - 2, i - 1) = <<"resolve", "exchange">>
        /\ \A i \in Position("list_anonymous") :
               token = None /\ AzIncomplete(env) /\ log[i - 1] = "resolve"
        /\ result = Raised("CredentialExchangeFailure") =>
               log = <<"list_ambient", "raised", "resolve", "exchange">>
        /\ (pc \in {"blob_fetch", "done"} /\ Position("resolve") # {}
               /\ result # Raised("CredentialExchangeFailure"))
               => Count({"list_token", "list_anonymous"}) = 1

\* C8 witness: the ambient listing raised, the exchange gave a token, the
\* listing with the token returned, and the download succeeded.
C8_Witness ==
    /\ Done /\ backend = "blob" /\ result.kind = "ok"
    /\ log = <<"list_ambient", "raised", "resolve", "exchange", "list_token">>

\* C9 (as stated): for a local path p that exists, download(p) and
\* download("file://" + p) without out_dir return p and change nothing on
\* the file system.
C9_ExistingPathReturnedUnchanged ==
    (/\ Done /\ out_arg = None
     /\ IsLocalPathUri(uri)
     /\ InitiallyExists(NamedPath(uri)))
        => (result = Returned(NamedPath(uri)) /\ FsUnchanged)

\* C10: a successful download with an out_dir returns that out_dir, and it
\* is a directory; a successful download without one of a uri that is not
\* local returns a directory that exists.
C10_ReturnedDirectoryExists ==
    (Done /\ result.kind = "ok") =>
        /\ out_arg # None => (result.value = out_arg /\ IsDir(out_arg))
        /\ (out_arg = None /\ ~RuleMatches("local", uri)) => IsDir(result.value)

\* C10 witness: an http download into an out_dir that did not exist
\* succeeded.
C10_Witness ==
    /\ Done /\ backend = "http" /\ result.kind = "ok"
    /\ out_arg = OUT_NEW /\ ~InitiallyExists(OUT_NEW)

\* The archive file as the specification names it: out_dir/filename, or
\* out_dir/filename.tar when the guessed encoding is gzip.
SpecArchivePath(u, o) ==
    LET filename == Basename(UrlPath(u))
    IN  IF GuessType(UrlPath(u))[2] = GZIP
        THEN o \o <<"/">> \o filename \o <<".","t","a","r">>
        ELSE o \o <<"/">> \o filename

\* The guessed media type of the uri is tar or zip.
IsArchiveUri(u) == GuessType(UrlPath(u))[1] \in {APPLICATION_X_TAR, APPLICATION_ZIP}

\* The place of a member under the destination
UnderDestination(o, name) == o \o <<"/">> \o LStripSlash(name)

HttpSucceeded == Done /\ backend = "http" /\ HasResponse /\ result.kind = "ok"

\* C11: after a successful generic-HTTP download of a tar or zip
\* every member of the archive is present under the destination and the
\* archive file is gone; after one of any other type the written file is
\* left in the destination.
C11_AllMembersPresentArchiveGone ==
    HttpSucceeded =>
        IF IsArchiveUri(uri)
        THEN /\ \A m \in response.body.members : Exists(UnderDestination(result.value, m))
             /\ ~Exists(SpecArchivePath(uri, result.value))
        ELSE Exists(SpecArchivePath(uri, result.value))

====
